---- MODULE Spec2Model ----
(***************************************************************************)
(* Signed-URL resolution of src/src/storage.ts: the process-local cache    *)
(* (signedUrlCache), the shared Redis tier, the signer, and the three      *)
(* entry points getAuthenticatedUrl / getSignedDownloadUrl (resolve),      *)
(* getAuthenticatedUrls (resolveBatch) and                                 *)
(* getSignedDownloadUrlForAttachment (resolveAttachment).                  *)
(*                                                                         *)
(* Time is counted in units of 5 minutes.  A string is modelled by the     *)
(* sequence of its '/'-separated segments, so "r2://b1/a" is               *)
(* <<"r2:", "", "b1", "a">> and the empty string is <<"">>.                *)
(***************************************************************************)
EXTENDS Integers, Sequences, FiniteSets, TLC

\* ---------------------------------------------------------------- constants
SAFETY_BUFFER_MS == 1
SIGNED_URL_CACHE_DURATION == 10
SIGNED_URL_EXPIRY == 12
REDIS_EX == SIGNED_URL_EXPIRY - 1

\* ------------------------------------------------------------------- bounds
MaxTime == 3
NumProcs == 2
MaxBatch == 3
MaxBatchTimed == 2
MaxBatchFaulty == 2
MaxPipes == 1
MaxBatchShared == 1
MaxTimeShared == 1
MaxSegs == 5
MaxTimeSlow == 12

Procs == 1..NumProcs

\* ------------------------------------------------------------ the references
RefCanonA  == <<"r2:", "", "b1", "a">>
RefCanonC  == <<"r2:", "", "b1", "c">>
RefOpaque  == <<"https:", "", "cdn", "logo">>

Refs == {RefCanonA, RefCanonC, RefOpaque}

\* the references of the specifications that work on a single key
OneKeyRefs == {RefCanonA, RefOpaque}

FileNames == {"f.jpg"}

\* --------------------------------------------------------------- the parser
Null == <<>>
EmptyString == <<"">>

Join(parts) == IF parts = <<>> THEN EmptyString ELSE parts

StartsWithR2(url) == Len(url) >= 3 /\ url[1] = "r2:" /\ url[2] = ""

\* positions i at which the regex /\/file\/[^\/]+\/(.+)$/ can match "/file/"
LegacyAt(url) ==
    {i \in 2..Len(url) : /\ url[i] = "file"
                         /\ i + 2 <= Len(url)
                         /\ url[i + 1] /= ""
                         /\ SubSeq(url, i + 2, Len(url)) /= EmptyString}

Min(S) == CHOOSE x \in S : \A y \in S : x <= y

\* the /file/ pattern is tried before the r2:// prefix
parseR2UrlLegacyFirst(url) ==
    IF LegacyAt(url) /= {}
    THEN SubSeq(url, Min(LegacyAt(url)) + 2, Len(url))
    ELSE IF StartsWithR2(url)
         THEN Join(SubSeq(url, 4, Len(url)))
         ELSE Null

parseR2Url(url) ==
    IF StartsWithR2(url)
    THEN Join(SubSeq(url, 4, Len(url)))
    ELSE IF LegacyAt(url) /= {}
         THEN SubSeq(url, Min(LegacyAt(url)) + 2, Len(url))
         ELSE Null

\* `!fileKey`: null and the empty string are both falsy
Falsy(key) == key = Null \/ key = EmptyString

Keys == {parseR2Url(r) : r \in Refs} \ {Null, EmptyString}

\* ------------------------------------------------------------------- values
\* what a caller receives: a signed URL or a string handed back unchanged
Url(k, t, d) == [raw |-> Null, key |-> k, at |-> t, disp |-> d]
Raw(r) == [raw |-> r, key |-> Null, at |-> -1, disp |-> ""]
NoUrl == Raw(EmptyString)

NoEntry == [url |-> NoUrl, expiresAt |-> -1, ttlAt |-> -1]

Entry(u, e) == [url |-> u, expiresAt |-> e, ttlAt |-> -1]
DEntry(u, e, t) == [url |-> u, expiresAt |-> e, ttlAt |-> t]

\* the check without the safety buffer
EligibleNoBuffer(e, t) == e /= NoEntry /\ e.expiresAt > t

Eligible(e, t) == e /= NoEntry /\ e.expiresAt > t + SAFETY_BUFFER_MS

\* ages (in time units) of the entries other instances have left in Redis
Ages == {0, 8, 9}

\* -------------------------------------------------------------------- state
VARIABLES now,              \* Date.now()
          signedUrlCache,   \* the Local tier: Map<string, SignedUrlCache>
          redisStore,       \* the Distributed tier: signed_url:<key> -> value
          calls,            \* the calls in flight, one slot per caller
          pipes             \* bulk writes handed to Redis and not yet answered

vars == <<now, signedUrlCache, redisStore, calls, pipes>>

\* a result handed to a caller: the URL, the tier it came from, the expiresAt
\* of the entry it was taken from and the time of the eligibility check
Res(u, s, e, t) == [url |-> u, src |-> s, exp |-> e, at |-> t]
NoRes == Res(NoUrl, "none", -1, -1)

\* one run of getAuthenticatedUrl / getSignedDownloadUrl
IdleTask == [pc |-> "idle", ref |-> Null, key |-> Null, url |-> NoUrl,
             exp |-> -1, res |-> NoRes, nsign |-> 0, nget |-> 0,
             cause |-> "", t0 |-> -1]

\* one run of getAuthenticatedUrls
IdleBatch == [pc |-> "idle", refs |-> <<>>, results |-> <<>>, missing |-> <<>>,
              still |-> <<>>, exp |-> -1, signAt |-> -1, pend |-> {},
              late |-> FALSE, timedOut |-> FALSE, mgetRejected |-> FALSE,
              signFailed |-> FALSE, nmget |-> 0, nsig |-> <<>>, sub |-> <<>>,
              out |-> <<>>, cause |-> "", t0 |-> -1, L0 |-> <<>>, D0 |-> <<>>]

IdleCall == [kind |-> "idle", task |-> IdleTask, b |-> IdleBatch]

\* redis.get / redis.mget answer: an entry whose TTL has lapsed is gone
RedisValue(D, k, t) ==
    IF D[k] /= NoEntry /\ t < D[k].ttlAt THEN D[k] ELSE NoEntry

\* the entry another instance of the service wrote for k, age time units
\* before this process started
Primed(k, age) ==
    DEntry(Url(k, 0 - age, ""), SIGNED_URL_CACHE_DURATION - age, REDIS_EX - age)

Init ==
    /\ now = 0
    /\ signedUrlCache = [k \in Keys |-> NoEntry]
    /\ redisStore \in [Keys -> {NoEntry} \cup {Primed(k, a) : k \in Keys, a \in Ages}]
    /\ \A k \in Keys : redisStore[k] = NoEntry \/ redisStore[k].url.key = k
    /\ calls = [p \in Procs |-> IdleCall]
    /\ pipes = {}

\* ------------------------------------------------------- the single-key path
\* the memory cache is not consulted
StartTaskNoLocal(ref, L, t) ==
    LET key == parseR2Url(ref)
        base == [IdleTask EXCEPT !.ref = ref, !.key = key, !.t0 = t]
    IN  IF Falsy(key)
        THEN [base EXCEPT !.pc = "ret", !.res = Res(Raw(ref), "opaque", -1, t)]
        ELSE [base EXCEPT !.pc = "get", !.nget = 1]

\* on a miss in the memory cache the signer is called without asking Redis
StartTaskSignFirst(ref, L, t) ==
    LET key == parseR2Url(ref)
        base == [IdleTask EXCEPT !.ref = ref, !.key = key, !.t0 = t]
    IN  IF Falsy(key)
        THEN [base EXCEPT !.pc = "ret", !.res = Res(Raw(ref), "opaque", -1, t)]
        ELSE IF Eligible(L[key], t)
             THEN [base EXCEPT !.pc = "ret",
                               !.res = Res(L[key].url, "local", L[key].expiresAt, t)]
             ELSE [base EXCEPT !.pc = "sign", !.url = Url(key, t, ""), !.nsign = 1]

\* getAuthenticatedUrl and getSignedDownloadUrl up to the first await
StartTask(ref, L, t) ==
    LET key == parseR2Url(ref)
        base == [IdleTask EXCEPT !.ref = ref, !.key = key, !.t0 = t]
    IN  IF Falsy(key)
        THEN [base EXCEPT !.pc = "ret", !.res = Res(Raw(ref), "opaque", -1, t)]
        ELSE IF Eligible(L[key], t)
             THEN [base EXCEPT !.pc = "ret",
                               !.res = Res(L[key].url, "local", L[key].expiresAt, t)]
             ELSE [base EXCEPT !.pc = "get", !.nget = 1]

\* the answer of Redis is ignored
GetOkNoRedis(tk, L, D, t) ==
    [t |-> [tk EXCEPT !.pc = "sign", !.url = Url(tk.key, t, ""), !.nsign = @ + 1],
     L |-> L, D |-> D]

\* whatever Redis holds is returned, without the expiry check
GetOkAnyValue(tk, L, D, t) ==
    LET v == RedisValue(D, tk.key, t)
    IN  IF v /= NoEntry
        THEN [t |-> [tk EXCEPT !.pc = "ret",
                               !.res = Res(v.url, "dist", v.expiresAt, t)],
              L |-> [L EXCEPT ![tk.key] = Entry(v.url, v.expiresAt)],
              D |-> D]
        ELSE [t |-> [tk EXCEPT !.pc = "sign", !.url = Url(tk.key, t, ""),
                               !.nsign = @ + 1],
              L |-> L, D |-> D]

\* the backfilled entry gets a fresh expiry instead of the one Redis holds
GetOkRecomputed(tk, L, D, t) ==
    LET v == RedisValue(D, tk.key, t)
    IN  IF Eligible(v, t)
        THEN [t |-> [tk EXCEPT !.pc = "ret",
                               !.res = Res(v.url, "dist", v.expiresAt, t)],
              L |-> [L EXCEPT ![tk.key] =
                        Entry(v.url, t + SIGNED_URL_CACHE_DURATION)],
              D |-> D]
        ELSE [t |-> [tk EXCEPT !.pc = "sign", !.url = Url(tk.key, t, ""),
                               !.nsign = @ + 1],
              L |-> L, D |-> D]

\* on a miss the stale entries of the key are removed from both tiers
GetOkEvicting(tk, L, D, t) ==
    LET v == RedisValue(D, tk.key, t)
    IN  IF Eligible(v, t)
        THEN [t |-> [tk EXCEPT !.pc = "ret",
                               !.res = Res(v.url, "dist", v.expiresAt, t)],
              L |-> [L EXCEPT ![tk.key] = Entry(v.url, v.expiresAt)],
              D |-> D]
        ELSE [t |-> [tk EXCEPT !.pc = "sign", !.url = Url(tk.key, t, ""),
                               !.nsign = @ + 1],
              L |-> [L EXCEPT ![tk.key] = NoEntry],
              D |-> [D EXCEPT ![tk.key] = NoEntry]]

\* the continuation after `await redis.get`: a valid entry is backfilled and
\* returned, otherwise the signer is called
GetOk(tk, L, D, t) ==
    LET v == RedisValue(D, tk.key, t)
    IN  IF Eligible(v, t)
        THEN [t |-> [tk EXCEPT !.pc = "ret",
                               !.res = Res(v.url, "dist", v.expiresAt, t)],
              L |-> [L EXCEPT ![tk.key] = Entry(v.url, v.expiresAt)],
              D |-> D]
        ELSE [t |-> [tk EXCEPT !.pc = "sign", !.url = Url(tk.key, t, ""),
                               !.nsign = @ + 1],
              L |-> L, D |-> D]

\* the continuation after `await getSignedUrl`
SignOk(tk, L, D, t) ==
    [t |-> [tk EXCEPT !.pc = "set", !.exp = t + SIGNED_URL_CACHE_DURATION],
     L |-> [L EXCEPT ![tk.key] = Entry(tk.url, t + SIGNED_URL_CACHE_DURATION)],
     D |-> D]

\* the continuation after `await redis.set`
SetOk(tk, L, D, t) ==
    [t |-> [tk EXCEPT !.pc = "ret", !.res = Res(tk.url, "signed", tk.exp, t)],
     L |-> L,
     D |-> [D EXCEPT ![tk.key] = DEntry(tk.url, tk.exp, t + REDIS_EX)]]

\* the entry is put into the memory cache before getSignedUrl has answered
ThrowCaching(tk, L, D, cause) ==
    [t |-> [tk EXCEPT !.pc = "err", !.cause = cause],
     L |-> IF cause = "signer"
           THEN [L EXCEPT ![tk.key] = Entry(tk.url, tk.t0 + SIGNED_URL_CACHE_DURATION)]
           ELSE L,
     D |-> D]

\* an awaited promise rejects: the catch block logs and rethrows
Throw(tk, L, D, cause) ==
    [t |-> [tk EXCEPT !.pc = "err", !.cause = cause], L |-> L, D |-> D]

\* what the await at tk.pc yields when the collaborator answers (ok) or fails
TaskOutcome(tk, L, D, t, ok) ==
    CASE ~ok /\ tk.pc \in {"get", "set"} -> Throw(tk, L, D, tk.pc)
      [] ~ok /\ tk.pc = "sign" -> Throw(tk, L, D, "signer")
      [] ok /\ tk.pc = "get"  -> GetOk(tk, L, D, t)
      [] ok /\ tk.pc = "sign" -> SignOk(tk, L, D, t)
      [] ok /\ tk.pc = "set"  -> SetOk(tk, L, D, t)

TaskDone(tk) == tk.pc \in {"ret", "err"}

CanStart(p) == calls[p].kind = "idle" /\ Cardinality(pipes) < MaxPipes

ResolveStart(p, ref) ==
    /\ CanStart(p)
    /\ calls' = [calls EXCEPT ![p] = [IdleCall EXCEPT !.kind = "resolve",
                     !.task = StartTask(ref, signedUrlCache, now)]]
    /\ UNCHANGED <<now, signedUrlCache, redisStore, pipes>>

ResolveStep(p, pc, ok) ==
    /\ calls[p].kind = "resolve"
    /\ calls[p].task.pc = pc
    /\ LET o == TaskOutcome(calls[p].task, signedUrlCache, redisStore, now, ok)
       IN  /\ calls' = [calls EXCEPT ![p].task = o.t]
           /\ signedUrlCache' = o.L
           /\ redisStore' = o.D
    /\ UNCHANGED <<now, pipes>>

ResolveGet(p) == ResolveStep(p, "get", TRUE)
ResolveGetFail(p) == ResolveStep(p, "get", FALSE)
ResolveSign(p) == ResolveStep(p, "sign", TRUE)
ResolveSignFail(p) == ResolveStep(p, "sign", FALSE)
ResolveSet(p) == ResolveStep(p, "set", TRUE)
ResolveSetFail(p) == ResolveStep(p, "set", FALSE)

\* ------------------------------------------------------ the attachment path
AttachStart(p, key, fileName) ==
    /\ CanStart(p)
    /\ calls' = [calls EXCEPT ![p] = [IdleCall EXCEPT !.kind = "attach",
                     !.task = [IdleTask EXCEPT !.pc = "sign", !.key = key,
                                  !.url = Url(key, now, fileName), !.nsign = 1,
                                  !.t0 = now]]]
    /\ UNCHANGED <<now, signedUrlCache, redisStore, pipes>>

\* the signed URL is kept in the memory cache
AttachSignCaching(p) ==
    /\ calls[p].kind = "attach"
    /\ calls[p].task.pc = "sign"
    /\ calls' = [calls EXCEPT ![p].task.pc = "ret",
                    ![p].task.res = Res(calls[p].task.url, "signed", -1, now)]
    /\ signedUrlCache' = [signedUrlCache EXCEPT ![calls[p].task.key] =
          Entry(calls[p].task.url, now + SIGNED_URL_CACHE_DURATION)]
    /\ UNCHANGED <<now, redisStore, pipes>>

AttachSign(p) ==
    /\ calls[p].kind = "attach"
    /\ calls[p].task.pc = "sign"
    /\ calls' = [calls EXCEPT ![p].task.pc = "ret",
                    ![p].task.res = Res(calls[p].task.url, "signed", -1, now)]
    /\ UNCHANGED <<now, signedUrlCache, redisStore, pipes>>

AttachSignFail(p) ==
    /\ calls[p].kind = "attach"
    /\ calls[p].task.pc = "sign"
    /\ calls' = [calls EXCEPT ![p].task.pc = "err", ![p].task.cause = "signer"]
    /\ UNCHANGED <<now, signedUrlCache, redisStore, pipes>>

\* ------------------------------------------------------------ the batch path
KeyAt(b, i) == parseR2Url(b.refs[i])

Indices(n) == [i \in 1..n |-> i]

InSeq(x, sq) == \E j \in 1..Len(sq) : sq[j] = x

\* an unparsable input is looked up like the others
BatchLocalNoPassThrough(refs, L, t) ==
    LET n == Len(refs)
        key(i) == parseR2Url(refs[i])
        miss(i) == Falsy(key(i)) \/ ~Eligible(L[key(i)], t)
    IN  [IdleBatch EXCEPT
           !.refs = refs,
           !.nsig = [i \in 1..n |-> 0],
           !.results = [i \in 1..n |->
               IF miss(i) THEN NoRes
               ELSE Res(L[key(i)].url, "local", L[key(i)].expiresAt, t)],
           !.missing = SelectSeq(Indices(n), LAMBDA i : miss(i))]

\* every resolvable input is looked up in Redis, the Local hits included
BatchLocalLookupAll(refs, L, t) ==
    LET n == Len(refs)
        key(i) == parseR2Url(refs[i])
    IN  [IdleBatch EXCEPT
           !.refs = refs,
           !.nsig = [i \in 1..n |-> 0],
           !.results = [i \in 1..n |->
               IF Falsy(key(i)) THEN Res(Raw(refs[i]), "opaque", -1, t)
               ELSE IF Eligible(L[key(i)], t)
                    THEN Res(L[key(i)].url, "local", L[key(i)].expiresAt, t)
                    ELSE NoRes],
           !.missing = SelectSeq(Indices(n), LAMBDA i : ~Falsy(key(i)))]

\* lines 258-273: parse, pass opaque inputs through, collect the Local hits
BatchLocal(refs, L, t) ==
    LET n == Len(refs)
        key(i) == parseR2Url(refs[i])
        miss(i) == ~Falsy(key(i)) /\ ~Eligible(L[key(i)], t)
    IN  [IdleBatch EXCEPT
           !.refs = refs,
           !.nsig = [i \in 1..n |-> 0],
           !.results = [i \in 1..n |->
               IF Falsy(key(i)) THEN Res(Raw(refs[i]), "opaque", -1, t)
               ELSE IF Eligible(L[key(i)], t)
                    THEN Res(L[key(i)].url, "local", L[key(i)].expiresAt, t)
                    ELSE NoRes],
           !.missing = SelectSeq(Indices(n), LAMBDA i : miss(i))]

\* lines 253, 275-285: return at once or issue the one mget
BatchBegin(refs, L, D, t) ==
    LET b == [BatchLocal(refs, L, t) EXCEPT !.t0 = t, !.L0 = L, !.D0 = D]
    IN  IF b.missing = <<>>
        THEN [b EXCEPT !.pc = "ret", !.out = b.results]
        ELSE [b EXCEPT !.pc = "mget", !.nmget = 1]

\* the hit of missing[j] is stored at index j instead of missing[j]
BatchSplitMisaligned(b, vals, t) ==
    LET hit(j) == vals /= Null /\ Eligible(vals[j], t)
    IN  [b EXCEPT
           !.results = [i \in 1..Len(b.refs) |->
               IF i <= Len(b.missing) /\ hit(i)
               THEN Res(vals[i].url, "dist", vals[i].expiresAt, t)
               ELSE b.results[i]],
           !.still = SelectSeq(b.missing, LAMBDA i :
                        ~hit(CHOOSE j \in 1..Len(b.missing) : b.missing[j] = i))]

\* lines 291-310: vals is aligned to b.missing, or Null after the deadline
BatchSplit(b, vals, t) ==
    LET hit(j) == vals /= Null /\ Eligible(vals[j], t)
        pos(i) == CHOOSE j \in 1..Len(b.missing) : b.missing[j] = i
    IN  [b EXCEPT
           !.results = [i \in 1..Len(b.refs) |->
               IF InSeq(i, b.missing) /\ hit(pos(i))
               THEN Res(vals[pos(i)].url, "dist", vals[pos(i)].expiresAt, t)
               ELSE b.results[i]],
           !.still = SelectSeq(b.missing, LAMBDA i : ~hit(pos(i)))]

\* the memory cache is rebuilt from the hits of the mget alone
BatchBackfillFresh(b, vals, L, t) ==
    [k \in Keys |->
        IF /\ vals /= Null
           /\ \E j \in 1..Len(b.missing) :
                 KeyAt(b, b.missing[j]) = k /\ Eligible(vals[j], t)
        THEN LET j == CHOOSE j \in 1..Len(b.missing) :
                         KeyAt(b, b.missing[j]) = k /\ Eligible(vals[j], t)
             IN  Entry(vals[j].url, vals[j].expiresAt)
        ELSE NoEntry]

\* lines 298-302: the Local tier after the hits of the mget were backfilled
BatchBackfill(b, vals, L, t) ==
    [k \in Keys |->
        IF /\ vals /= Null
           /\ \E j \in 1..Len(b.missing) :
                 KeyAt(b, b.missing[j]) = k /\ Eligible(vals[j], t)
        THEN LET j == CHOOSE j \in 1..Len(b.missing) :
                         KeyAt(b, b.missing[j]) = k /\ Eligible(vals[j], t)
             IN  Entry(vals[j].url, vals[j].expiresAt)
        ELSE L[k]]

\* the signer is called for every index that missed in Local
BatchSignAllMissing(b, t) ==
    IF b.still = <<>>
    THEN [b EXCEPT !.pc = "ret", !.out = b.results]
    ELSE [b EXCEPT !.pc = "signing",
                   !.still = b.missing,
                   !.exp = t + SIGNED_URL_CACHE_DURATION,
                   !.signAt = t,
                   !.pend = {b.missing[j] : j \in 1..Len(b.missing)},
                   !.nsig = [i \in 1..Len(b.refs) |->
                               IF InSeq(i, b.missing) THEN @[i] + 1 ELSE @[i]]]

\* the signer calls are made one after the other: only the first is started
BatchSignAllOneByOne(b, t) ==
    IF b.still = <<>>
    THEN [b EXCEPT !.pc = "ret", !.out = b.results]
    ELSE [b EXCEPT !.pc = "signing",
                   !.exp = t + SIGNED_URL_CACHE_DURATION,
                   !.signAt = t,
                   !.pend = {b.still[1]},
                   !.nsig = [i \in 1..Len(b.refs) |->
                               IF i = b.still[1] THEN @[i] + 1 ELSE @[i]]]

\* a key listed several times is signed once, for its first position
BatchSignAllDeduped(b, t) ==
    LET first(i) == \A j \in 1..Len(b.still) :
                        KeyAt(b, b.still[j]) = KeyAt(b, i) => i <= b.still[j]
    IN  IF b.still = <<>>
        THEN [b EXCEPT !.pc = "ret", !.out = b.results]
        ELSE [b EXCEPT !.pc = "signing",
                       !.exp = t + SIGNED_URL_CACHE_DURATION,
                       !.signAt = t,
                       !.pend = {b.still[j] : j \in {l \in 1..Len(b.still) :
                                                        first(b.still[l])}},
                       !.nsig = [i \in 1..Len(b.refs) |->
                                   IF InSeq(i, b.still) /\ first(i)
                                   THEN @[i] + 1 ELSE @[i]]]

\* lines 312-337: return on a full hit, or call the signer for every still
\* missing index before any of the calls is awaited
BatchSignAll(b, t) ==
    IF b.still = <<>>
    THEN [b EXCEPT !.pc = "ret", !.out = b.results]
    ELSE [b EXCEPT !.pc = "signing",
                   !.exp = t + SIGNED_URL_CACHE_DURATION,
                   !.signAt = t,
                   !.pend = {b.still[j] : j \in 1..Len(b.still)},
                   !.nsig = [i \in 1..Len(b.refs) |->
                               IF InSeq(i, b.still) THEN @[i] + 1 ELSE @[i]]]

\* every fallback call is waited for and a rejected one leaves its placeholder
FallbackSettleLenient(b) ==
    IF b.pc /= "fallback" THEN b
    ELSE IF \A i \in 1..Len(b.sub) : TaskDone(b.sub[i])
         THEN [b EXCEPT !.pc = "ret",
                  !.out = [i \in 1..Len(b.sub) |-> b.sub[i].res]]
         ELSE b

\* line 357: Promise.all settles with the first rejection or the last result
FallbackSettle(b) ==
    IF b.pc /= "fallback" THEN b
    ELSE IF \E i \in 1..Len(b.sub) : b.sub[i].pc = "err"
         THEN [b EXCEPT !.pc = "err",
                  !.cause = b.sub[CHOOSE i \in 1..Len(b.sub) :
                                           b.sub[i].pc = "err"].cause]
         ELSE IF \A i \in 1..Len(b.sub) : b.sub[i].pc = "ret"
              THEN [b EXCEPT !.pc = "ret",
                       !.out = [i \in 1..Len(b.sub) |-> b.sub[i].res]]
              ELSE b

\* lines 354-357: the catch block starts getAuthenticatedUrl for every input
FallbackBegin(b, L, t) ==
    FallbackSettle([b EXCEPT !.pc = "fallback",
        !.sub = [i \in 1..Len(b.refs) |-> StartTask(b.refs[i], L, t)]])

\* lines 343-349: the entries of signedResults, in stillMissing order
Bulk(b) == [j \in 1..Len(b.still) |->
              [key |-> KeyAt(b, b.still[j]),
               url |-> Url(KeyAt(b, b.still[j]), b.signAt, ""),
               exp |-> b.exp]]

BatchInputs(refs, max) == UNION {[1..n -> refs] : n \in 0..max}

BatchStart(p, refs) ==
    /\ CanStart(p)
    /\ calls' = [calls EXCEPT ![p] = [IdleCall EXCEPT !.kind = "batch",
                     !.b = BatchBegin(refs, signedUrlCache, redisStore, now)]]
    /\ UNCHANGED <<now, signedUrlCache, redisStore, pipes>>

\* redis.mget answers before the deadline
BatchMget(p) ==
    LET b == calls[p].b
        vals == [j \in 1..Len(b.missing) |->
                    RedisValue(redisStore, KeyAt(b, b.missing[j]), now)]
    IN  /\ calls[p].kind = "batch"
        /\ b.pc = "mget"
        /\ calls' = [calls EXCEPT ![p].b = BatchSignAll(BatchSplit(b, vals, now), now)]
        /\ signedUrlCache' = BatchBackfill(b, vals, signedUrlCache, now)
        /\ UNCHANGED <<now, redisStore, pipes>>

\* the 2000 ms timer wins the race: redisValues is null
BatchDeadline(p) ==
    LET b == calls[p].b
    IN  /\ calls[p].kind = "batch"
        /\ b.pc = "mget"
        /\ calls' = [calls EXCEPT ![p].b =
              BatchSignAll(BatchSplit([b EXCEPT !.late = TRUE, !.timedOut = TRUE],
                                      Null, now), now)]
        /\ signedUrlCache' = BatchBackfill(b, Null, signedUrlCache, now)
        /\ UNCHANGED <<now, redisStore, pipes>>

\* redis.mget rejects before the deadline: the catch block takes over
BatchMgetFail(p) ==
    LET b == calls[p].b
    IN  /\ calls[p].kind = "batch"
        /\ b.pc = "mget"
        /\ calls' = [calls EXCEPT ![p].b =
              FallbackBegin([b EXCEPT !.mgetRejected = TRUE], signedUrlCache, now)]
        /\ UNCHANGED <<now, signedUrlCache, redisStore, pipes>>

\* the late answer is applied as if it had won the race
LateMgetApplied(b, L) ==
    [b |-> [b EXCEPT !.late = FALSE],
     L |-> [k \in Keys |->
              IF \E j \in 1..Len(b.missing) : KeyAt(b, b.missing[j]) = k
              THEN Entry(Url(k, b.t0, ""), b.t0 + SIGNED_URL_CACHE_DURATION)
              ELSE L[k]]]

\* what the abandoned mget does to the call when it settles after the race
LateMget(b, L) == [b |-> [b EXCEPT !.late = FALSE], L |-> L]

BatchLateMget(p) ==
    /\ calls[p].kind = "batch"
    /\ calls[p].b.late
    /\ calls' = [calls EXCEPT ![p].b = LateMget(calls[p].b, signedUrlCache).b]
    /\ signedUrlCache' = LateMget(calls[p].b, signedUrlCache).L
    /\ UNCHANGED <<now, redisStore, pipes>>

\* one getSignedUrl of the parallel step resolves (lines 328-336); the last
\* one lets Promise.all resolve, and lines 343-353 run
BatchSignOk(p, i) ==
    LET b == calls[p].b
        u == Url(KeyAt(b, i), b.signAt, "")
        b1 == [b EXCEPT !.pend = @ \ {i},
                        !.results[i] = Res(u, "signed", b.exp, now)]
        last == b.pc = "signing" /\ b1.pend = {}
    IN  /\ calls[p].kind = "batch"
        /\ i \in b.pend
        /\ signedUrlCache' = [signedUrlCache EXCEPT ![KeyAt(b, i)] = Entry(u, b.exp)]
        /\ calls' = [calls EXCEPT ![p].b =
              IF last THEN [b1 EXCEPT !.pc = "ret", !.out = b1.results] ELSE b1]
        /\ pipes' = IF last THEN pipes \cup {Bulk(b)} ELSE pipes
        /\ UNCHANGED <<now, redisStore>>

\* the rejection of getSignedUrl is the rejection of the batch call
BatchSignFailRejects(p, i) ==
    LET b == calls[p].b
        b1 == [b EXCEPT !.pend = @ \ {i}, !.signFailed = TRUE]
    IN  /\ calls[p].kind = "batch"
        /\ i \in b.pend
        /\ calls' = [calls EXCEPT ![p].b =
              IF b.pc = "signing" THEN [b1 EXCEPT !.pc = "err", !.cause = "signer"]
              ELSE b1]
        /\ UNCHANGED <<now, signedUrlCache, redisStore, pipes>>

\* one getSignedUrl of the parallel step rejects: Promise.all rejects with
\* the first rejection and the catch block takes over
BatchSignFail(p, i) ==
    LET b == calls[p].b
        b1 == [b EXCEPT !.pend = @ \ {i}, !.signFailed = TRUE]
    IN  /\ calls[p].kind = "batch"
        /\ i \in b.pend
        /\ calls' = [calls EXCEPT ![p].b =
              IF b.pc = "signing" THEN FallbackBegin(b1, signedUrlCache, now) ELSE b1]
        /\ UNCHANGED <<now, signedUrlCache, redisStore, pipes>>

\* one await of one fallback getSignedDownloadUrl settles
FallbackStep(p, i, pc, ok) ==
    LET b == calls[p].b
    IN  /\ calls[p].kind = "batch"
        /\ b.pc \in {"fallback", "err"}
        /\ i \in 1..Len(b.sub)
        /\ b.sub[i].pc = pc
        /\ LET o == TaskOutcome(b.sub[i], signedUrlCache, redisStore, now, ok)
           IN  /\ calls' = [calls EXCEPT ![p].b =
                               FallbackSettle([b EXCEPT !.sub[i] = o.t])]
               /\ signedUrlCache' = o.L
               /\ redisStore' = o.D
        /\ UNCHANGED <<now, pipes>>

FallbackGet(p, i) == FallbackStep(p, i, "get", TRUE)
FallbackGetFail(p, i) == FallbackStep(p, i, "get", FALSE)
FallbackSign(p, i) == FallbackStep(p, i, "sign", TRUE)
FallbackSignFail(p, i) == FallbackStep(p, i, "sign", FALSE)
FallbackSet(p, i) == FallbackStep(p, i, "set", TRUE)
FallbackSetFail(p, i) == FallbackStep(p, i, "set", FALSE)

\* ------------------------------------------------------------- environment
\* pipeline.exec() is answered: every SET of the bulk write was applied
PipeExec(bulk) ==
    /\ bulk \in pipes
    /\ pipes' = pipes \ {bulk}
    /\ redisStore' = [k \in Keys |->
          IF \E j \in 1..Len(bulk) : bulk[j].key = k
          THEN LET j == CHOOSE j \in 1..Len(bulk) : bulk[j].key = k
               IN  DEntry(bulk[j].url, bulk[j].exp, now + REDIS_EX)
          ELSE redisStore[k]]
    /\ UNCHANGED <<now, signedUrlCache, calls>>

\* the rejection of pipeline.exec() reaches the call that made the bulk write
PipeExecFailThrows(bulk) ==
    /\ bulk \in pipes
    /\ pipes' = pipes \ {bulk}
    /\ calls' = [p \in Procs |->
                    IF calls[p].kind = "batch"
                    THEN [calls[p] EXCEPT !.b.pc = "err", !.b.cause = "set",
                                          !.b.out = <<>>]
                    ELSE calls[p]]
    /\ UNCHANGED <<now, signedUrlCache, redisStore>>

\* pipeline.exec() rejects: line 348 logs a warning
PipeExecFail(bulk) ==
    /\ bulk \in pipes
    /\ pipes' = pipes \ {bulk}
    /\ UNCHANGED <<now, signedUrlCache, redisStore, calls>>

Tick ==
    /\ now < MaxTime
    /\ now' = now + 1
    /\ UNCHANGED <<signedUrlCache, redisStore, calls, pipes>>

Settled(c) ==
    CASE c.kind \in {"resolve", "attach"} -> TaskDone(c.task)
      [] c.kind = "batch" -> /\ c.b.pc \in {"ret", "err"}
                             /\ c.b.pend = {}
                             /\ \A i \in 1..Len(c.b.sub) : TaskDone(c.b.sub[i])
      [] OTHER -> FALSE

\* the caller has its answer and nothing of the call is left in flight
Release(p) ==
    /\ Settled(calls[p])
    /\ calls' = [calls EXCEPT ![p] = IdleCall]
    /\ UNCHANGED <<now, signedUrlCache, redisStore, pipes>>

\* ----------------------------------------------------------- specifications
Caller == Min(Procs)

\* One caller at a time, the clock standing still, the signer answering every
\* call and Redis answering or hanging.
Next ==
    \/ \E r \in Refs : ResolveStart(Caller, r)
    \/ ResolveGet(Caller)
    \/ ResolveSign(Caller)
    \/ ResolveSet(Caller)
    \/ \E k \in Keys, f \in FileNames : AttachStart(Caller, k, f)
    \/ AttachSign(Caller)
    \/ \E rs \in BatchInputs(Refs, MaxBatch) : BatchStart(Caller, rs)
    \/ BatchMget(Caller)
    \/ BatchDeadline(Caller)
    \/ BatchLateMget(Caller)
    \/ \E i \in 1..MaxBatch : BatchSignOk(Caller, i)
    \/ \E b \in pipes : PipeExec(b)
    \/ Release(Caller)

Spec == Init /\ [][Next]_vars

\* Redis holds entries of one key only
InitOneKey ==
    /\ Init
    /\ \A k \in Keys : k /= parseR2Url(RefCanonA) => redisStore[k] = NoEntry

OneKey == {parseR2Url(RefCanonA)}

\* One caller at a time on one key, the clock running.
NextTimed ==
    \/ \E r \in OneKeyRefs : ResolveStart(Caller, r)
    \/ ResolveGet(Caller)
    \/ ResolveSign(Caller)
    \/ ResolveSet(Caller)
    \/ \E rs \in BatchInputs(OneKeyRefs, MaxBatchTimed) : BatchStart(Caller, rs)
    \/ BatchMget(Caller)
    \/ BatchDeadline(Caller)
    \/ BatchLateMget(Caller)
    \/ \E i \in 1..MaxBatchTimed : BatchSignOk(Caller, i)
    \/ \E b \in pipes : PipeExec(b)
    \/ Tick
    \/ Release(Caller)

SpecTimed == InitOneKey /\ [][NextTimed]_vars

\* One caller at a time on one key, the clock standing still, the signer and
\* Redis free to fail on every call.
NextFaulty ==
    \/ \E r \in OneKeyRefs : ResolveStart(Caller, r)
    \/ ResolveGet(Caller)
    \/ ResolveGetFail(Caller)
    \/ ResolveSign(Caller)
    \/ ResolveSignFail(Caller)
    \/ ResolveSet(Caller)
    \/ ResolveSetFail(Caller)
    \/ \E k \in OneKey, f \in FileNames : AttachStart(Caller, k, f)
    \/ AttachSign(Caller)
    \/ AttachSignFail(Caller)
    \/ \E rs \in BatchInputs(OneKeyRefs, MaxBatchFaulty) : BatchStart(Caller, rs)
    \/ BatchMget(Caller)
    \/ BatchDeadline(Caller)
    \/ BatchMgetFail(Caller)
    \/ BatchLateMget(Caller)
    \/ \E i \in 1..MaxBatchFaulty : BatchSignOk(Caller, i)
    \/ \E i \in 1..MaxBatchFaulty : BatchSignFail(Caller, i)
    \/ \E i \in 1..MaxBatchFaulty : FallbackGet(Caller, i)
    \/ \E i \in 1..MaxBatchFaulty : FallbackGetFail(Caller, i)
    \/ \E i \in 1..MaxBatchFaulty : FallbackSign(Caller, i)
    \/ \E i \in 1..MaxBatchFaulty : FallbackSignFail(Caller, i)
    \/ \E i \in 1..MaxBatchFaulty : FallbackSet(Caller, i)
    \/ \E i \in 1..MaxBatchFaulty : FallbackSetFail(Caller, i)
    \/ \E b \in pipes : PipeExec(b)
    \/ \E b \in pipes : PipeExecFail(b)
    \/ Release(Caller)

SpecFaulty == InitOneKey /\ [][NextFaulty]_vars

\* Two successive getAuthenticatedUrl calls on one key: the second is made
\* after the first has settled, the clock running.
First == Caller
Second == Caller + 1

NextTwice ==
    \/ \E r \in OneKeyRefs : calls[Second].kind = "idle" /\ ResolveStart(First, r)
    \/ \E r \in OneKeyRefs : Settled(calls[First]) /\ ResolveStart(Second, r)
    \/ \E p \in {First, Second} : ResolveGet(p)
    \/ \E p \in {First, Second} : ResolveSign(p)
    \/ \E p \in {First, Second} : ResolveSet(p)
    \/ Tick
    \/ Release(Second)
    \/ calls[Second].kind = "idle" /\ Release(First)

SpecTwice == InitOneKey /\ [][NextTwice]_vars

\* no tier holds an eligible entry
InitCold ==
    /\ InitOneKey
    /\ \A k \in Keys : ~Eligible(redisStore[k], now)

\* Two getAuthenticatedUrl calls, each made once and at any moment, on a key
\* that starts in neither tier; the clock running, Redis and the signer
\* answering.
NextRace ==
    \/ \E p \in {First, Second}, r \in OneKeyRefs : ResolveStart(p, r)
    \/ \E p \in {First, Second} : ResolveGet(p)
    \/ \E p \in {First, Second} : ResolveSign(p)
    \/ \E p \in {First, Second} : ResolveSet(p)
    \/ Tick

SpecRace == InitCold /\ [][NextRace]_vars

\* the references of the specification of batch calls over two keys
TwoKeyRefs == {RefCanonA, RefCanonC}

\* One getAuthenticatedUrls call at a time over two keys, one of which Redis
\* may hold; the clock standing still, the signer answering, Redis answering
\* the mget or missing the deadline and answering or failing the bulk write.
NextBulk ==
    \/ \E rs \in BatchInputs(TwoKeyRefs, MaxBatchTimed) : BatchStart(Caller, rs)
    \/ BatchMget(Caller)
    \/ BatchDeadline(Caller)
    \/ BatchLateMget(Caller)
    \/ \E i \in 1..MaxBatchTimed : BatchSignOk(Caller, i)
    \/ \E b \in pipes : PipeExec(b)
    \/ \E b \in pipes : PipeExecFail(b)
    \/ Release(Caller)

SpecBulk == InitOneKey /\ [][NextBulk]_vars

\* The same calls with the clock running.
NextBatch ==
    \/ NextBulk
    \/ Tick

SpecBatch == InitOneKey /\ [][NextBatch]_vars

\* One getAuthenticatedUrls call at a time on one key, the clock standing
\* still; the signer and Redis free to fail on every call.
NextLive ==
    \/ \E rs \in BatchInputs(OneKeyRefs, MaxBatchFaulty) : BatchStart(Caller, rs)
    \/ BatchMget(Caller)
    \/ BatchDeadline(Caller)
    \/ BatchMgetFail(Caller)
    \/ BatchLateMget(Caller)
    \/ \E i \in 1..MaxBatchFaulty : BatchSignOk(Caller, i)
    \/ \E i \in 1..MaxBatchFaulty : BatchSignFail(Caller, i)
    \/ \E i \in 1..MaxBatchFaulty : FallbackGet(Caller, i)
    \/ \E i \in 1..MaxBatchFaulty : FallbackGetFail(Caller, i)
    \/ \E i \in 1..MaxBatchFaulty : FallbackSign(Caller, i)
    \/ \E i \in 1..MaxBatchFaulty : FallbackSignFail(Caller, i)
    \/ \E i \in 1..MaxBatchFaulty : FallbackSet(Caller, i)
    \/ \E i \in 1..MaxBatchFaulty : FallbackSetFail(Caller, i)
    \/ \E b \in pipes : PipeExec(b)
    \/ \E b \in pipes : PipeExecFail(b)
    \/ Release(Caller)

\* every getSignedUrl call settles, resolved or rejected
SignerSettles ==
    /\ WF_vars(\E i \in 1..MaxBatchFaulty :
                  BatchSignOk(Caller, i) \/ BatchSignFail(Caller, i))
    /\ WF_vars(\E i \in 1..MaxBatchFaulty :
                  FallbackSign(Caller, i) \/ FallbackSignFail(Caller, i))

\* the setTimeout of line 283 fires unless redis.mget has settled before
TimerFires == WF_vars(BatchDeadline(Caller))

\* The signer always settles and the timer fires; nothing is assumed of
\* Redis, which may answer, fail or stay silent on every operation.
SpecLive == InitOneKey /\ [][NextLive]_vars /\ SignerSettles /\ TimerFires

\* the reference of the specification of concurrent calls on one key
SharedRefs == {RefCanonA}

TickShared ==
    /\ now < MaxTimeShared
    /\ now' = now + 1
    /\ UNCHANGED <<signedUrlCache, redisStore, calls, pipes>>

\* Two callers making getAuthenticatedUrl and getAuthenticatedUrls calls on
\* one key, again and again and at any moment; the clock running, Redis and
\* the signer answering.
NextShared ==
    \/ \E p \in {First, Second}, r \in SharedRefs : ResolveStart(p, r)
    \/ \E p \in {First, Second} : ResolveGet(p)
    \/ \E p \in {First, Second} : ResolveSign(p)
    \/ \E p \in {First, Second} : ResolveSet(p)
    \/ \E p \in {First, Second}, rs \in BatchInputs(SharedRefs, MaxBatchShared) :
          BatchStart(p, rs)
    \/ \E p \in {First, Second} : BatchMget(p)
    \/ \E p \in {First, Second}, i \in 1..MaxBatchShared : BatchSignOk(p, i)
    \/ \E b \in pipes : PipeExec(b)
    \/ TickShared
    \/ \E p \in {First, Second} : Release(p)

SpecShared == InitOneKey /\ [][NextShared]_vars

\* the object of RefCanonA as it is named in another bucket
RefOtherBucket == <<"r2:", "", "b2", "a">>

ContainerRefs == {RefCanonA, RefOtherBucket}

\* Two successive getAuthenticatedUrl calls on r2:// references that name the
\* same path in one bucket or in two, the clock running.
NextContainers ==
    \/ \E r \in ContainerRefs : calls[Second].kind = "idle" /\ ResolveStart(First, r)
    \/ \E r \in ContainerRefs : Settled(calls[First]) /\ ResolveStart(Second, r)
    \/ \E p \in {First, Second} : ResolveGet(p)
    \/ \E p \in {First, Second} : ResolveSign(p)
    \/ \E p \in {First, Second} : ResolveSet(p)
    \/ Tick
    \/ Release(Second)
    \/ calls[Second].kind = "idle" /\ Release(First)

SpecContainers == InitOneKey /\ [][NextContainers]_vars

\* the segments the strings handed to the parser are made of
Segs == {"r2:", "", "file", "b1", "a"}

\* every string of at most MaxSegs segments
ParserInputs == UNION {[1..n -> Segs] : n \in 1..MaxSegs}

\* parseR2Url is about to be called on any of the strings
InitParser ==
    /\ now = 0
    /\ signedUrlCache = [k \in Keys |-> NoEntry]
    /\ redisStore = [k \in Keys |-> NoEntry]
    /\ \E r \in ParserInputs :
          calls = [p \in Procs |->
                     IF p = Caller
                     THEN [IdleCall EXCEPT !.kind = "parse", !.task.pc = "parse",
                                           !.task.ref = r]
                     ELSE IdleCall]
    /\ pipes = {}

\* parseR2Url returns
ParseStep(p) ==
    /\ calls[p].kind = "parse"
    /\ calls[p].task.pc = "parse"
    /\ calls' = [calls EXCEPT ![p].task.pc = "ret",
                              ![p].task.key = parseR2Url(calls[p].task.ref)]
    /\ UNCHANGED <<now, signedUrlCache, redisStore, pipes>>

NextParser == ParseStep(Caller)

SpecParser == InitParser /\ [][NextParser]_vars

TickSlow ==
    /\ now < MaxTimeSlow
    /\ now' = now + 1
    /\ UNCHANGED <<signedUrlCache, redisStore, calls, pipes>>

\* One caller at a time on one key; the signer and Redis answer every call
\* but may take any time to do so: the clock runs for more than the lifetime
\* of a signed URL.
NextSlow ==
    \/ \E r \in SharedRefs : ResolveStart(Caller, r)
    \/ ResolveGet(Caller)
    \/ ResolveSign(Caller)
    \/ ResolveSet(Caller)
    \/ \E rs \in BatchInputs(SharedRefs, MaxBatchShared) : BatchStart(Caller, rs)
    \/ BatchMget(Caller)
    \/ \E i \in 1..MaxBatchShared : BatchSignOk(Caller, i)
    \/ \E b \in pipes : PipeExec(b)
    \/ TickSlow
    \/ Release(Caller)

SpecSlow == InitOneKey /\ [][NextSlow]_vars

\* ------------------------------------------------------------------- claims
Opaque(ref) == parseR2Url(ref) = Null

IsBatch(p) == calls[p].kind = "batch"
IsResolve(p) == calls[p].kind = "resolve"

\* a URL signed for key k
SignedFor(u, k) == u.raw = Null /\ u.key = k

ServedEligible(r) ==
    /\ r.src \in {"local", "dist"} => r.exp > r.at + SAFETY_BUFFER_MS
    /\ r.src = "signed" => r.url.raw = Null

\* C1: a result taken from Local or from Redis comes from an entry with
\* expiresAt > now + safety buffer at the moment of the lookup, in
\* getSignedDownloadUrl and in getAuthenticatedUrls; every other result of a
\* resolvable reference is a URL signed during the call.
C1_ExpiryEnforced ==
    \A p \in Procs :
        /\ IsResolve(p) /\ calls[p].task.pc = "ret" =>
              LET tk == calls[p].task
              IN  /\ ServedEligible(tk.res)
                  /\ tk.res.src = "signed" => tk.nsign = 1 /\ tk.res.url.at >= tk.t0
                  /\ tk.res.src \in {"local", "dist"} => tk.nsign = 0
        /\ IsBatch(p) =>
              LET b == calls[p].b
              IN  /\ \A i \in 1..Len(b.results) :
                        /\ ServedEligible(b.results[i])
                        /\ b.results[i].src = "signed" =>
                              b.nsig[i] = 1 /\ b.results[i].url.at >= b.t0
                        /\ b.results[i].src \in {"local", "dist"} => b.nsig[i] = 0
                  /\ \A i \in 1..Len(b.sub) : ServedEligible(b.sub[i].res)

\* a batch call signed a key whose entries were present in both tiers but
\* inside the safety buffer when the call was made
C1_Witness ==
    \E p \in Procs :
        /\ IsBatch(p) /\ calls[p].b.pc = "ret"
        /\ \E i \in 1..Len(calls[p].b.refs) :
              LET b == calls[p].b
                  k == KeyAt(b, i)
              IN  /\ ~Falsy(k)
                  /\ b.L0[k] /= NoEntry /\ ~Eligible(b.L0[k], b.t0)
                  /\ RedisValue(b.D0, k, b.t0) /= NoEntry
                  /\ b.out[i].src = "signed"

\* C2: a rejected redis.get never makes getSignedDownloadUrl reject: the call
\* goes on to the signer and the caller gets a URL.
C2_GetFailureNotSurfaced ==
    \A p \in Procs :
        IsResolve(p) => ~(calls[p].task.pc = "err" /\ calls[p].task.cause = "get")

\* C3: a rejected redis.mget never makes getAuthenticatedUrls reject with a
\* Redis error: the looked-up keys count as absent and a full array is returned.
C3_MgetFailureNotSurfaced ==
    \A p \in Procs :
        IsBatch(p) /\ calls[p].b.mgetRejected =>
            ~(calls[p].b.pc = "err" /\ calls[p].b.cause \in {"get", "set"})

\* C4 (state part): after the deadline every looked-up index is signed once,
\* and the call returns a full array holding those signed URLs.
DeadlineDegrades ==
    \A p \in Procs :
        IsBatch(p) /\ calls[p].b.timedOut =>
            LET b == calls[p].b
            IN  /\ b.still = b.missing
                /\ b.pc \in {"signing", "ret"}
                /\ \A j \in 1..Len(b.missing) : b.nsig[b.missing[j]] = 1
                /\ b.pc = "ret" =>
                      /\ Len(b.out) = Len(b.refs)
                      /\ \A j \in 1..Len(b.missing) :
                            LET i == b.missing[j]
                            IN  /\ b.out[i].src = "signed"
                                /\ b.out[i].url = Url(KeyAt(b, i), b.signAt, "")

\* C4 (step part): the abandoned mget settling changes neither the results
\* nor the Local tier.
LateMgetDiscarded ==
    \A p \in Procs :
        IsBatch(p) /\ calls[p].b.late /\ calls'[p].kind = "batch" /\ ~calls'[p].b.late =>
            /\ signedUrlCache' = signedUrlCache
            /\ calls'[p].b.results = calls[p].b.results
            /\ calls'[p].b.out = calls[p].b.out

\* C4: when the deadline fires before redis.mget answers, every looked-up key
\* is signed directly and the call returns URLs for all inputs; the late answer
\* of the abandoned mget is discarded.
C4_DeadlineDegradation == []DeadlineDegrades /\ [][LateMgetDiscarded]_vars

\* a call returned after the deadline although Redis held an eligible entry
\* for a looked-up key, and the abandoned mget has settled since
C4_Witness ==
    \E p \in Procs :
        /\ IsBatch(p) /\ calls[p].b.timedOut /\ calls[p].b.pc = "ret"
        /\ ~calls[p].b.late
        /\ \E j \in 1..Len(calls[p].b.missing) :
              LET b == calls[p].b
              IN  Eligible(RedisValue(b.D0, KeyAt(b, b.missing[j]), b.t0), b.t0)

\* C5: when a second getAuthenticatedUrl call on a key is made while the entry
\* the first call returned from is still eligible, the second returns at once
\* with the identical URL and the signer ran at most once across both calls.
C5_IdempotentWithinValidity ==
    LET f == calls[First].task
        s == calls[Second].task
    IN  /\ IsResolve(First) /\ f.pc = "ret" /\ ~Falsy(f.key)
        /\ IsResolve(Second) /\ s.key = f.key
        /\ f.res.exp > s.t0 + SAFETY_BUFFER_MS
        => /\ s.pc = "ret"
           /\ s.res.url = f.res.url
           /\ s.nsign = 0
           /\ f.nsign + s.nsign <= 1

\* the first call signed the URL, the clock advanced, the second call returned
C5_Witness ==
    /\ IsResolve(First) /\ calls[First].task.pc = "ret"
    /\ calls[First].task.res.src = "signed"
    /\ IsResolve(Second) /\ calls[Second].task.pc = "ret"
    /\ calls[Second].task.key = calls[First].task.key
    /\ calls[Second].task.t0 > calls[First].task.res.at
    /\ calls[First].task.res.exp > calls[Second].task.t0 + SAFETY_BUFFER_MS

\* C6: a returned batch has the length of the input, an opaque input at its
\* own index unchanged and, at every other index, a URL signed for the key of
\* that input.
C6_BatchShape ==
    \A p \in Procs :
        IsBatch(p) /\ calls[p].b.pc = "ret" =>
            LET b == calls[p].b
            IN  /\ Len(b.out) = Len(b.refs)
                /\ \A i \in 1..Len(b.refs) :
                      IF Opaque(b.refs[i])
                      THEN b.out[i].url = Raw(b.refs[i])
                      ELSE SignedFor(b.out[i].url, KeyAt(b, i))

\* a returned batch of three with an opaque input, a Redis hit and a fresh
\* signature, the opaque input not in first place
C6_Witness ==
    \E p \in Procs :
        /\ IsBatch(p) /\ calls[p].b.pc = "ret" /\ Len(calls[p].b.out) = 3
        /\ calls[p].b.out[1].src /= "opaque"
        /\ {calls[p].b.out[i].src : i \in 1..3} = {"opaque", "dist", "signed"}

\* what getAuthenticatedUrl(ref) returns when run to completion from the
\* tiers L, D at time t, Redis and the signer answering
ResolveRun(ref, L, D, t) ==
    LET t1 == StartTask(ref, L, t)
        o2 == GetOk(t1, L, D, t)
        o3 == SignOk(o2.t, o2.L, o2.D, t)
        o4 == SetOk(o3.t, o3.L, o3.D, t)
    IN  IF t1.pc = "ret" THEN t1.res
        ELSE IF o2.t.pc = "ret" THEN o2.t.res
        ELSE o4.t.res

\* equal as strings when the signer's answer depends on the key alone
SameUnderDeterministicSigner(u, v) ==
    u.raw = v.raw /\ u.key = v.key /\ u.disp = v.disp

\* C7: every position of a returned batch holds what getAuthenticatedUrl of
\* that reference returns from the cache state the batch call started in: the
\* very same URL when redis.mget answered, the URL of the same key otherwise.
C7_BatchSingleEquivalence ==
    \A p \in Procs :
        IsBatch(p) /\ calls[p].b.pc = "ret" =>
            LET b == calls[p].b
            IN  /\ Len(b.out) = Len(b.refs)
                /\ \A i \in 1..Len(b.refs) :
                      LET single == ResolveRun(b.refs[i], b.L0, b.D0, b.t0)
                      IN  /\ SameUnderDeterministicSigner(b.out[i].url, single.url)
                          /\ ~b.timedOut => b.out[i].url = single.url

\* a returned batch with a Local hit and a key that was not in Local
C7_Witness ==
    \E p \in Procs :
        /\ IsBatch(p) /\ calls[p].b.pc = "ret" /\ ~calls[p].b.timedOut
        /\ \E i, j \in 1..Len(calls[p].b.out) :
              /\ calls[p].b.out[i].src = "local"
              /\ calls[p].b.out[j].src \in {"dist", "signed"}
              /\ i < j

RECURSIVE SumTo(_, _)
SumTo(f, n) == IF n = 0 THEN 0 ELSE f[n] + SumTo(f, n - 1)

\* the signer calls a batch call has issued on its parallel step
SignerCalls(b) == SumTo(b.nsig, Len(b.nsig))

\* the input positions whose key had an eligible entry in Local or in Redis
\* when the call was made
CachedAtCall(b) ==
    {i \in 1..Len(b.refs) :
        /\ ~Opaque(b.refs[i])
        /\ \/ Eligible(b.L0[KeyAt(b, i)], b.t0)
           \/ Eligible(RedisValue(b.D0, KeyAt(b, i), b.t0), b.t0)}

Resolvable(b) == {i \in 1..Len(b.refs) : ~Opaque(b.refs[i])}

C9_OpaquePassThrough ==
    \A p \in Procs :
        /\ IsResolve(p) /\ Opaque(calls[p].task.ref) =>
              /\ calls[p].task.pc = "ret"
              /\ calls[p].task.res.url = Raw(calls[p].task.ref)
              /\ calls[p].task.nsign = 0
              /\ calls[p].task.nget = 0
        /\ IsBatch(p) =>
              LET b == calls[p].b
              IN  \A i \in 1..Len(b.refs) : Opaque(b.refs[i]) =>
                     /\ b.results[i].url = Raw(b.refs[i])
                     /\ b.nsig[i] = 0
                     /\ ~InSeq(i, b.missing)
                     /\ b.pc = "ret" => b.out[i].url = Raw(b.refs[i])

\* an opaque reference was returned by a single call
C9_Witness ==
    \E p \in Procs :
        /\ IsResolve(p) /\ calls[p].task.pc = "ret"
        /\ Opaque(calls[p].task.ref)
        /\ calls[p].task.res.url = Raw(RefOpaque)

IsAttach(p) == calls[p].kind = "attach"

\* C10 (state part): an attachment call answers with the URL its own signer
\* call produced, carrying the file name, never with a cached URL.
AttachSignsAfresh ==
    \A p \in Procs :
        IsAttach(p) =>
            LET tk == calls[p].task
            IN  /\ tk.nsign = 1 /\ tk.nget = 0
                /\ tk.pc = "ret" =>
                      /\ tk.res.url.at = tk.t0
                      /\ tk.res.url.disp \in FileNames
                      /\ tk.res.url /= signedUrlCache[tk.key].url
                      /\ tk.res.url /= redisStore[tk.key].url

\* C10 (step part): no step of an attachment call changes a cache tier.
AttachLeavesTiers ==
    \A p \in Procs :
        (IsAttach(p) \/ calls'[p].kind = "attach") /\ calls'[p] /= calls[p] =>
            /\ signedUrlCache' = signedUrlCache
            /\ redisStore' = redisStore
            /\ pipes' = pipes

\* C10: getSignedDownloadUrlForAttachment calls the signer on every call and
\* neither reads nor writes Local or Redis, warm or not.
C10_AttachmentIsolation == []AttachSignsAfresh /\ [][AttachLeavesTiers]_vars

\* an attachment call returned for a key that is warm in both tiers
C10_Witness ==
    \E p \in Procs :
        /\ IsAttach(p) /\ calls[p].task.pc = "ret"
        /\ Eligible(signedUrlCache[calls[p].task.key], now)
        /\ Eligible(redisStore[calls[p].task.key], now)

\* C11 (state part): a getSignedDownloadUrl whose signer call rejected has
\* rejected itself, handing no URL to its caller, and Local holds nothing
\* eligible for its key.
SignerFailureSurfaced ==
    \A p \in Procs :
        IsResolve(p) /\ calls[p].task.pc = "err" /\ calls[p].task.cause = "signer" =>
            /\ calls[p].task.res = NoRes
            /\ calls[p].task.nsign = 1
            /\ ~Eligible(signedUrlCache[calls[p].task.key], now)

\* C11 (step part): the step on which the signer call rejects ends the call
\* with the signer's error and writes neither tier.
SignerFailureLeavesTiers ==
    \A p \in Procs :
        /\ IsResolve(p) /\ calls[p].task.pc = "sign"
        /\ calls'[p].kind = "resolve" /\ calls'[p].task.pc = "err"
        => /\ calls'[p].task.cause = "signer"
           /\ signedUrlCache' = signedUrlCache
           /\ redisStore' = redisStore
           /\ pipes' = pipes

\* C11: when getSignedUrl rejects inside getSignedDownloadUrl the call rejects
\* with that error and no entry for the key is written to Local or to Redis.
C11_SignerFailurePropagates ==
    []SignerFailureSurfaced /\ [][SignerFailureLeavesTiers]_vars

\* a single call on a key that is in neither tier rejected with the signer's
\* error, and the key is still in neither tier
C11_Witness ==
    \E p \in Procs :
        /\ IsResolve(p) /\ calls[p].task.pc = "err"
        /\ calls[p].task.cause = "signer"
        /\ signedUrlCache[calls[p].task.key] = NoEntry
        /\ redisStore[calls[p].task.key] = NoEntry

\* C12: a rejected signer call of the fallback path makes the whole
\* getAuthenticatedUrls call reject, and a call that returns hands back an
\* array of the input length holding, at every resolvable position, a URL
\* signed for that input, never the '' placeholder.
C12_BatchAllOrNothing ==
    \A p \in Procs :
        IsBatch(p) =>
            LET b == calls[p].b
            IN  /\ (\E i \in 1..Len(b.sub) :
                       b.sub[i].pc = "err" /\ b.sub[i].cause = "signer")
                   => b.pc = "err" /\ b.out = <<>>
                /\ b.pc = "ret" =>
                      /\ Len(b.out) = Len(b.refs)
                      /\ \A i \in 1..Len(b.refs) : ~Opaque(b.refs[i]) =>
                            /\ b.out[i] /= NoRes
                            /\ b.out[i].url /= NoUrl
                            /\ SignedFor(b.out[i].url, KeyAt(b, i))

\* a call rejected with the signer's error although one of its two fallback
\* resolutions had signed and returned a URL
C12_Witness ==
    \E p \in Procs :
        /\ IsBatch(p) /\ calls[p].b.pc = "err" /\ calls[p].b.cause = "signer"
        /\ Len(calls[p].b.sub) = 2
        /\ \E i, j \in 1..2 :
              /\ calls[p].b.sub[i].pc = "ret" /\ calls[p].b.sub[i].res.src = "signed"
              /\ calls[p].b.sub[j].pc = "err" /\ calls[p].b.sub[j].cause = "signer"

\* C13: the Redis write of getSignedDownloadUrl is not part of the caller's
\* control flow: once the signer has answered the call never waits for
\* redis.set, and a rejected redis.set never makes the call reject.
C13_SetFireAndForget ==
    \A p \in Procs :
        IsResolve(p) =>
            /\ calls[p].task.pc /= "set"
            /\ ~(calls[p].task.pc = "err" /\ calls[p].task.cause = "set")

\* the URL a single call returned is signed for its key and came from an
\* entry outside its safety buffer or from the call's own signer call
ValidUrl(tk) ==
    /\ SignedFor(tk.res.url, tk.key)
    /\ tk.res.url.disp = ""
    /\ tk.res.src \in {"local", "dist", "signed"}
    /\ tk.res.src \in {"local", "dist"} => tk.res.exp > tk.res.at + SAFETY_BUFFER_MS

\* C14: when two getAuthenticatedUrl calls on one key that is in neither tier
\* have both returned, however their steps interleaved, each holds a valid
\* URL and together they called the signer once or twice.
C14_ConcurrentColdResolves ==
    LET f == calls[First].task
        s == calls[Second].task
    IN  /\ IsResolve(First) /\ f.pc = "ret" /\ ~Falsy(f.key)
        /\ IsResolve(Second) /\ s.pc = "ret" /\ s.key = f.key
        => /\ ValidUrl(f) /\ ValidUrl(s)
           /\ f.nsign + s.nsign \in {1, 2}

\* the two calls overlapped, both signed, and returned different URLs
C14_Witness ==
    LET f == calls[First].task
        s == calls[Second].task
    IN  /\ IsResolve(First) /\ f.pc = "ret" /\ ~Falsy(f.key)
        /\ IsResolve(Second) /\ s.pc = "ret" /\ s.key = f.key
        /\ f.nsign = 1 /\ s.nsign = 1
        /\ s.t0 <= f.res.at /\ f.t0 <= s.res.at
        /\ f.res.url /= s.res.url

\* the step on which a getAuthenticatedUrls call returns
BatchReturns(p) ==
    /\ calls'[p].kind = "batch" /\ calls'[p].b.pc = "ret"
    /\ ~(calls[p].kind = "batch" /\ calls[p].b.pc = "ret")

\* C15: at the moment getAuthenticatedUrls returns, every signed URL of the
\* returned array comes from an entry that is still outside its safety buffer
\* (now + SAFETY_BUFFER_MS < expiresAt), the hits collected before the awaits
\* included.
C15_EligibleAtReturn ==
    [][\A p \in Procs :
          BatchReturns(p) =>
              \A i \in 1..Len(calls'[p].b.out) :
                  calls'[p].b.out[i].src \in {"local", "dist", "signed"} =>
                      calls'[p].b.out[i].exp > now' + SAFETY_BUFFER_MS]_vars

\* C16: every getAuthenticatedUrls call eventually returns or rejects when
\* every signer call it issues settles, whether or not Redis ever answers any
\* of its operations.
C16_BatchCompletes ==
    \A p \in Procs :
        IsBatch(p) ~> (IsBatch(p) /\ calls[p].b.pc \in {"ret", "err"})

\* C17 as stated: a Local read of a key made after a call wrote an entry for
\* it, and before that entry expires, observes that very entry (same url and
\* expiresAt), whatever other calls on the key are in flight.
C17_ReadYourWrite ==
    \A w, r \in Procs :
        /\ IsResolve(w) /\ calls[w].task.pc = "ret"
        /\ calls[w].task.res.src \in {"signed", "dist"}
        /\ IsResolve(r) /\ calls[r].task.pc = "ret"
        /\ calls[r].task.res.src = "local"
        /\ calls[r].task.key = calls[w].task.key
        /\ calls[r].task.t0 > calls[w].task.res.at
        /\ calls[w].task.res.exp > calls[r].task.t0 + SAFETY_BUFFER_MS
        => /\ calls[r].task.res.url = calls[w].task.res.url
           /\ calls[r].task.res.exp = calls[w].task.res.exp

\* call p is at an await whose continuation may write Local for key k
InFlightOn(p, k) ==
    \/ /\ IsResolve(p) /\ calls[p].task.key = k
       /\ calls[p].task.pc \in {"get", "sign"}
    \/ /\ IsBatch(p)
       /\ \E i \in 1..Len(calls[p].b.refs) : KeyAt(calls[p].b, i) = k
       /\ calls[p].b.pc = "mget" \/ calls[p].b.pend /= {}

\* the entries call p can hold for key k when that await settles: the value
\* Redis answers with, or the URL of its own signer call
Obtained(p, k) ==
    LET v == RedisValue(redisStore, k, now)
    IN  {Entry(v.url, v.expiresAt),
         Entry(calls[p].task.url, now + SIGNED_URL_CACHE_DURATION),
         Entry(Url(k, calls[p].b.signAt, ""), calls[p].b.exp)}

\* Local never loses an entry, and the entry of a key is replaced only on a
\* step of a call in flight on that key, by an entry that call obtained
LocalKept ==
    \A k \in Keys :
        signedUrlCache'[k] /= signedUrlCache[k] =>
            /\ signedUrlCache'[k] /= NoEntry
            /\ \E p \in Procs :
                  /\ calls'[p] /= calls[p]
                  /\ InFlightOn(p, k)
                  /\ signedUrlCache'[k] \in Obtained(p, k)

\* a Local hit hands back the entry Local holds at the moment of the read
LocalHitReadsCurrent ==
    \A p \in Procs :
        calls[p].kind = "idle" =>
            /\ calls'[p].kind = "resolve" /\ calls'[p].task.res.src = "local" =>
                  LET e == signedUrlCache[calls'[p].task.key]
                  IN  /\ calls'[p].task.res.url = e.url
                      /\ calls'[p].task.res.exp = e.expiresAt
            /\ calls'[p].kind = "batch" =>
                  \A i \in 1..Len(calls'[p].b.results) :
                      calls'[p].b.results[i].src = "local" =>
                          LET e == signedUrlCache[KeyAt(calls'[p].b, i)]
                          IN  /\ calls'[p].b.results[i].url = e.url
                              /\ calls'[p].b.results[i].exp = e.expiresAt

\* C17 (amended): an entry written to Local is never removed and is replaced
\* only when a call in flight on the same key finishes its Redis read or its
\* signer call, by the entry that call obtained; a Local read observes the
\* entry written last.
C17_LocalLastWriteWins == [][LocalKept /\ LocalHitReadsCurrent]_vars

\* a call signed and wrote an entry; a concurrent call replaced it while it
\* was valid, and a later read observed the replacement, which Local holds
C17_Witness ==
    \E w, r \in Procs :
        /\ IsResolve(w) /\ calls[w].task.pc = "ret"
        /\ calls[w].task.res.src = "signed"
        /\ IsResolve(r) /\ calls[r].task.pc = "ret"
        /\ calls[r].task.res.src = "local"
        /\ calls[r].task.key = calls[w].task.key
        /\ calls[r].task.t0 > calls[w].task.res.at
        /\ calls[w].task.res.exp > calls[r].task.t0 + SAFETY_BUFFER_MS
        /\ calls[r].task.res.exp /= calls[w].task.res.exp
        /\ signedUrlCache[calls[r].task.key] =
              Entry(calls[r].task.res.url, calls[r].task.res.exp)

\* the fallback resolutions of a batch call that are waiting on Redis or on
\* the signer
FallbackInFlight(b) ==
    {i \in 1..Len(b.sub) : b.sub[i].pc \in {"get", "sign", "set"}}

\* C18: when the batch path throws, the inputs are resolved through
\* getAuthenticatedUrl one after another, no two of these resolutions in
\* flight at the same time, and on success the call yields an array of the
\* input length aligned with the input.
C18_FallbackSequential ==
    \A p \in Procs :
        IsBatch(p) =>
            LET b == calls[p].b
            IN  /\ Cardinality(FallbackInFlight(b)) <= 1
                /\ b.pc = "ret" /\ b.sub /= <<>> =>
                      /\ Len(b.out) = Len(b.refs)
                      /\ \A i \in 1..Len(b.refs) :
                            IF Opaque(b.refs[i])
                            THEN b.out[i].url = Raw(b.refs[i])
                            ELSE SignedFor(b.out[i].url, KeyAt(b, i))

\* the positions of a returned array that hold a URL signed by the call
SignedPositions(b) == {i \in 1..Len(b.out) : b.out[i].src = "signed"}

\* on the step getAuthenticatedUrls returns, Local holds the entry of every
\* key the call signed, and those entries have been handed to Redis in one
\* bulk write that has not been answered
ReturnWritesBack(p) ==
    LET b == calls'[p].b
        S == SignedPositions(b)
        sent == {[key |-> KeyAt(b, i), url |-> b.out[i].url, exp |-> b.out[i].exp] :
                    i \in S}
    IN  /\ \A i \in S :
              signedUrlCache'[KeyAt(b, i)] = Entry(b.out[i].url, b.out[i].exp)
        /\ redisStore' = redisStore
        /\ IF S = {}
           THEN pipes' = pipes
           ELSE \E bulk \in pipes' :
                   /\ pipes' = pipes \cup {bulk}
                   /\ Len(bulk) = Cardinality(S)
                   /\ {bulk[j] : j \in 1..Len(bulk)} = sent

\* the answer to a bulk write, good or bad, leaves every call as it is
BulkAnswerLeavesCalls ==
    pipes' /= pipes /\ pipes' \subseteq pipes => calls' = calls

\* C19: when getAuthenticatedUrls returns, every key it signed has its entry
\* in Local and the new entries are in one pipeline write that is not
\* awaited; the failure of that write changes neither the returned array nor
\* the outcome of the call.
C19_BatchWriteBack ==
    [][/\ \A p \in Procs : BatchReturns(p) => ReturnWritesBack(p)
       /\ BulkAnswerLeavesCalls]_vars

\* a call that signed two different keys has returned; its bulk write was
\* answered with a failure, Redis holding neither key, Local holding both
C19_Witness ==
    \E p \in Procs :
        /\ IsBatch(p) /\ calls[p].b.pc = "ret" /\ pipes = {}
        /\ \E i, j \in SignedPositions(calls[p].b) :
              LET b == calls[p].b
              IN  /\ KeyAt(b, i) /= KeyAt(b, j)
                  /\ redisStore[KeyAt(b, i)] = NoEntry
                  /\ redisStore[KeyAt(b, j)] = NoEntry
                  /\ signedUrlCache[KeyAt(b, i)] = Entry(b.out[i].url, b.out[i].exp)
                  /\ signedUrlCache[KeyAt(b, j)] = Entry(b.out[j].url, b.out[j].exp)

\* C20 (state part): a Local hit was returned without a Redis read or a
\* signer call, a Redis hit after one Redis read and without a signer call,
\* and the signer is called only after the one Redis read.
TierCounts ==
    \A p \in Procs :
        IsResolve(p) =>
            LET tk == calls[p].task
            IN  /\ tk.nsign <= tk.nget /\ tk.nget <= 1
                /\ tk.pc = "get" => tk.nget = 1 /\ tk.nsign = 0
                /\ tk.pc \in {"sign", "set"} => tk.nget = 1 /\ tk.nsign = 1
                /\ tk.res.src = "local" => tk.nget = 0 /\ tk.nsign = 0
                /\ tk.res.src = "dist" => tk.nget = 1 /\ tk.nsign = 0
                /\ tk.res.src = "signed" => tk.nget = 1 /\ tk.nsign = 1

\* C20 (step part): the call returns at once exactly when Local holds an
\* eligible entry and asks Redis otherwise; after the Redis read it returns
\* exactly when Redis answered with an eligible entry and calls the signer
\* otherwise.
TierSteps ==
    \A p \in Procs :
        LET tk == calls'[p].task
        IN  /\ calls[p].kind = "idle" /\ calls'[p].kind = "resolve" /\ ~Falsy(tk.key) =>
                  IF Eligible(signedUrlCache[tk.key], now)
                  THEN tk.pc = "ret" /\ tk.res.src = "local"
                  ELSE tk.pc = "get"
            /\ IsResolve(p) /\ calls[p].task.pc = "get" /\ calls'[p] /= calls[p] =>
                  IF Eligible(RedisValue(redisStore, tk.key, now), now)
                  THEN tk.pc = "ret" /\ tk.res.src = "dist"
                  ELSE tk.pc = "sign"

\* C20: getSignedDownloadUrl consults Local, then Redis, then the signer, and
\* stops at the first tier that holds an eligible entry.
C20_TierOrder == []TierCounts /\ [][TierSteps]_vars

\* the first call missed Local and returned the entry of Redis; the second
\* returned it from Local
C20_Witness ==
    /\ IsResolve(First) /\ calls[First].task.pc = "ret"
    /\ calls[First].task.res.src = "dist"
    /\ IsResolve(Second) /\ calls[Second].task.pc = "ret"
    /\ calls[Second].task.res.src = "local"
    /\ calls[Second].task.res.url = calls[First].task.res.url
    /\ calls[Second].task.nget = 0

\* C21 (state part): every Local entry of key k is a URL signed for k paired
\* with the expiry it was granted: the pair another instance left in Redis,
\* or a pair recorded by this process at or after its signer call.
LocalProvenance ==
    \A k \in Keys :
        LET e == signedUrlCache[k]
        IN  e /= NoEntry =>
                /\ SignedFor(e.url, k) /\ e.url.disp = "" /\ e.ttlAt = -1
                /\ IF e.url.at < 0
                   THEN \E a \in Ages : /\ e.url = Primed(k, a).url
                                        /\ e.expiresAt = Primed(k, a).expiresAt
                   ELSE /\ e.url.at + SIGNED_URL_CACHE_DURATION <= e.expiresAt
                        /\ e.expiresAt <= now + SIGNED_URL_CACHE_DURATION

\* C21 (step part): the step that takes a hit from Redis stores in Local the
\* url and the expiresAt of the Redis entry itself.
BackfillOwnExpiry ==
    \A p \in Procs :
        /\ IsResolve(p) /\ calls[p].task.pc = "get"
           /\ calls'[p].task.res.src = "dist" =>
              LET k == calls[p].task.key
              IN  signedUrlCache'[k] =
                     Entry(redisStore[k].url, redisStore[k].expiresAt)
        /\ IsBatch(p) /\ calls[p].b.pc = "mget" /\ calls'[p].kind = "batch" =>
              \A i \in 1..Len(calls'[p].b.results) :
                  calls'[p].b.results[i].src = "dist" =>
                      LET k == KeyAt(calls[p].b, i)
                      IN  signedUrlCache'[k] =
                             Entry(redisStore[k].url, redisStore[k].expiresAt)

\* C21: a Local entry is always a (url, expiresAt) pair read from Redis for
\* its key or created by a signer call for its key, and a Redis hit is
\* backfilled with the expiresAt of the Redis entry, never a recomputed one.
C21_LocalProvenance == []LocalProvenance /\ [][BackfillOwnExpiry]_vars

\* Local holds the entry another instance signed, with that entry's own
\* expiry, which has since run into its safety buffer
C21_Witness ==
    \E k \in Keys :
        /\ signedUrlCache[k] /= NoEntry
        /\ signedUrlCache[k].url.at < 0
        /\ signedUrlCache[k].expiresAt = redisStore[k].expiresAt
        /\ ~Eligible(signedUrlCache[k], now)

\* the input positions whose key was not served by Local when the call began
MissedLocal(b) ==
    {i \in 1..Len(b.refs) :
        /\ ~Falsy(KeyAt(b, i))
        /\ ~Eligible(b.L0[KeyAt(b, i)], b.t0)}

\* C22: a getAuthenticatedUrls call issues at most one mget; the mget asks
\* for the keys of exactly the positions that missed in Local, in input
\* order, and when no resolvable key missed the call returns with no mget
\* and no signer call.
C22_BatchLookupMinimal ==
    \A p \in Procs : IsBatch(p) =>
        LET b == calls[p].b
        IN  /\ b.nmget <= 1
            /\ \A j \in 1..Len(b.missing) : b.missing[j] \in MissedLocal(b)
            /\ \A i \in MissedLocal(b) : InSeq(i, b.missing)
            /\ \A j, l \in 1..Len(b.missing) :
                  j < l => b.missing[j] < b.missing[l]
            /\ (b.nmget = 1) = (MissedLocal(b) /= {})
            /\ MissedLocal(b) = {} =>
                  /\ b.pc = "ret"
                  /\ \A i \in 1..Len(b.refs) : b.nsig[i] = 0
                  /\ b.sub = <<>>

\* a batch of three with an opaque input, a Local hit and one key left for
\* the single mget
C22_Witness ==
    \E p \in Procs :
        /\ IsBatch(p)
        /\ calls[p].b.pc = "mget"
        /\ calls[p].b.nmget = 1
        /\ Len(calls[p].b.refs) = 3
        /\ Len(calls[p].b.missing) = 1
        /\ \E i \in 1..3 : calls[p].b.results[i].src = "local"
        /\ \E i \in 1..3 : calls[p].b.results[i].src = "opaque"

\* C23: while the parallel step of a batch is awaited, the signer call of
\* every still missing position has been started, one per position, and the
\* calls in flight are those that have not answered yet; none waits for
\* another.
C23_SignersStartedTogether ==
    \A p \in Procs : IsBatch(p) /\ calls[p].b.pc = "signing" =>
        LET b == calls[p].b
        IN  /\ \A j \in 1..Len(b.still) : b.nsig[b.still[j]] = 1
            /\ \A i \in 1..Len(b.refs) : ~InSeq(i, b.still) => b.nsig[i] = 0
            /\ \A j \in 1..Len(b.still) :
                  b.still[j] \in b.pend \/ b.results[b.still[j]].src = "signed"
            /\ \A i \in b.pend : InSeq(i, b.still) /\ b.results[i] = NoRes

\* the signer calls of two different keys are in flight at the same time
C23_Witness ==
    \E p \in Procs :
        /\ IsBatch(p)
        /\ calls[p].b.pc = "signing"
        /\ \E i, j \in calls[p].b.pend :
              /\ KeyAt(calls[p].b, i) /= KeyAt(calls[p].b, j)
              /\ calls[p].b.results[i] = NoRes
              /\ calls[p].b.results[j] = NoRes

\* two r2:// references with the same path in different buckets
DifferOnlyInContainer(r1, r2) ==
    /\ StartsWithR2(r1) /\ StartsWithR2(r2)
    /\ r1[3] /= r2[3]
    /\ SubSeq(r1, 4, Len(r1)) = SubSeq(r2, 4, Len(r2))

\* C24: two canonical references that differ only in their container have
\* different cache keys, so the later call is never served the entry, nor
\* handed the URL, of the earlier one.
C24_ContainerInCacheKey ==
    \A p, q \in Procs :
        /\ IsResolve(p) /\ IsResolve(q)
        /\ DifferOnlyInContainer(calls[p].task.ref, calls[q].task.ref)
        => /\ calls[p].task.key /= calls[q].task.key
           /\ calls[p].task.pc = "ret" /\ calls[q].task.pc = "ret" =>
                 calls[p].task.res.url /= calls[q].task.res.url

\* the string continues after a "/file/<container>/" that starts at segment i
LegacyShapeAt(r, i) ==
    /\ i >= 2 /\ i + 2 <= Len(r)
    /\ r[i] = "file"
    /\ r[i + 1] /= ""
    /\ ~(i + 2 = Len(r) /\ r[i + 2] = "")

\* C25: the parser answers for every string, by the first rule that applies:
\* a string with the r2:// prefix is Canonical and its key is the path after
\* the container, even when it also has the legacy shape; otherwise a string
\* with the legacy shape yields the path after the first "/file/<container>/";
\* otherwise the string is Opaque.
C25_ParserRuleOrder ==
    \A p \in Procs : calls[p].kind = "parse" /\ calls[p].task.pc = "ret" =>
        LET r == calls[p].task.ref
            k == calls[p].task.key
            canonical == Len(r) >= 3 /\ r[1] = "r2:" /\ r[2] = ""
            legacy == \E i \in 1..Len(r) : LegacyShapeAt(r, i)
        IN  /\ canonical =>
                /\ k /= Null
                /\ IF Len(r) = 3 THEN k = EmptyString
                   ELSE <<r[1], r[2], r[3]>> \o k = r
            /\ ~canonical /\ legacy =>
                /\ k /= Null /\ k /= EmptyString
                /\ \E i \in 1..Len(r) :
                      /\ LegacyShapeAt(r, i)
                      /\ SubSeq(r, 1, i + 1) \o k = r
                      /\ \A j \in 1..Len(r) : LegacyShapeAt(r, j) => i <= j
            /\ ~canonical /\ ~legacy => k = Null

\* "r2://file/b1/a" has the prefix and the legacy shape and is parsed as
\* Canonical: bucket "file", key "b1/a"
C25_Witness ==
    \E p \in Procs :
        /\ calls[p].kind = "parse"
        /\ calls[p].task.pc = "ret"
        /\ calls[p].task.ref = <<"r2:", "", "file", "b1", "a">>
        /\ calls[p].task.key = <<"b1", "a">>

\* a step removes no entry: a key present in Local stays present, a record
\* written to Redis is never withdrawn, and Redis stops answering for a key
\* only when the TTL of its untouched record runs out
NoEntryRemoved ==
    \A k \in Keys :
        /\ signedUrlCache[k] /= NoEntry => signedUrlCache'[k] /= NoEntry
        /\ redisStore[k] /= NoEntry => redisStore'[k] /= NoEntry
        /\ /\ RedisValue(redisStore, k, now) /= NoEntry
           /\ RedisValue(redisStore', k, now') = NoEntry
           => /\ redisStore'[k] = redisStore[k]
              /\ now < redisStore[k].ttlAt
              /\ now' >= redisStore[k].ttlAt

\* C26: the set of keys present in Local never shrinks and no delete is ever
\* issued to Redis, whose entries disappear by TTL lapse only.
C26_NoExplicitDeletion == [][NoEntryRemoved]_vars

\* the TTL of the Redis entry has lapsed while Local still holds the entry it
\* backfilled from it, stale and never removed
C26_Witness ==
    \E k \in Keys :
        /\ redisStore[k] /= NoEntry
        /\ RedisValue(redisStore, k, now) = NoEntry
        /\ signedUrlCache[k] = Entry(redisStore[k].url, redisStore[k].expiresAt)
        /\ ~Eligible(signedUrlCache[k], now)
        /\ \E p \in Procs : IsResolve(p) /\ calls[p].task.pc = "sign"

\* every entry a step puts into Local is eligible when the step ends
LocalWriteEligible ==
    \A k \in Keys :
        signedUrlCache'[k] /= signedUrlCache[k] =>
            Eligible(signedUrlCache'[k], now')

\* C27: every write into Local, backfill or write after signing, in
\* getSignedDownloadUrl or getAuthenticatedUrls, stores an entry that is
\* eligible at the moment of the write: now + safety buffer < expiresAt.
C27_LocalWritesEligible == [][LocalWriteEligible]_vars

\* the signed URL of entry e can still be fetched at time t: it was signed at
\* e.url.at for SIGNED_URL_EXPIRY
UrlAlive(e, t) == t < e.url.at + SIGNED_URL_EXPIRY

\* C30: whenever an entry of Local or of Redis passes the eligibility test
\* now + 5 min < expiresAt, the 3600 s for which its URL was signed, counted
\* from the signer call, have not lapsed.
C30_EligibleImpliesUrlAlive ==
    \A k \in Keys :
        /\ Eligible(signedUrlCache[k], now) => UrlAlive(signedUrlCache[k], now)
        /\ Eligible(RedisValue(redisStore, k, now), now) =>
              UrlAlive(RedisValue(redisStore, k, now), now)

\* C28: when a getAuthenticatedUrls call that did not fall back returns and
\* two of its positions name the same key, which missed both tiers, the
\* signer was called once for each of the two positions, each position holds
\* the URL signed for the key by the call of the parallel step, and Local
\* holds for that key the entry of one of the two calls.
C28_DuplicateKeySignedTwice ==
    \A p \in Procs : IsBatch(p) /\ calls[p].b.pc = "ret" /\ calls[p].b.sub = <<>> =>
        LET b == calls[p].b
        IN  \A i, j \in 1..Len(b.refs) :
                /\ i < j
                /\ KeyAt(b, i) = KeyAt(b, j)
                /\ InSeq(i, b.still) /\ InSeq(j, b.still)
                => /\ b.nsig[i] = 1 /\ b.nsig[j] = 1
                   /\ \A n \in {i, j} :
                         /\ b.out[n].src = "signed"
                         /\ SignedFor(b.out[n].url, KeyAt(b, n))
                         /\ b.out[n].url.at = b.signAt
                   /\ signedUrlCache[KeyAt(b, i)] \in
                         {Entry(b.out[n].url, b.out[n].exp) : n \in {i, j}}

\* a batch naming one cold key twice has returned after two signer calls
C28_Witness ==
    \E p \in Procs :
        /\ IsBatch(p)
        /\ calls[p].b.pc = "ret"
        /\ Len(calls[p].b.refs) = 2
        /\ calls[p].b.refs[1] = calls[p].b.refs[2]
        /\ calls[p].b.still = <<1, 2>>
        /\ calls[p].b.nsig = <<1, 1>>
        /\ calls[p].b.out[1].src = "signed"
        /\ calls[p].b.out[2].src = "signed"

\* C29: once a signer call of the parallel step of a batch has failed, the
\* call has handed every reference, in input order, to getAuthenticatedUrl;
\* it returns the aligned array of their results when all have resolved,
\* rejects only when one of them has rejected, and has called the signer at
\* most twice for any input position.
C29_SignerFailureFallsBack ==
    \A p \in Procs : IsBatch(p) /\ calls[p].b.signFailed =>
        LET b == calls[p].b
            n == Len(b.refs)
        IN  /\ b.pc \in {"fallback", "ret", "err"}
            /\ Len(b.sub) = n
            /\ \A i \in 1..n : b.sub[i].ref = b.refs[i]
            /\ b.pc = "ret" =>
                  /\ Len(b.out) = n
                  /\ \A i \in 1..n :
                        /\ b.sub[i].pc = "ret"
                        /\ b.out[i] = b.sub[i].res
                        /\ IF Falsy(KeyAt(b, i))
                           THEN b.out[i].url = Raw(b.refs[i])
                           ELSE SignedFor(b.out[i].url, KeyAt(b, i))
            /\ b.pc = "err" => \E i \in 1..n : b.sub[i].pc = "err"
            /\ b.pc = "fallback" => \E i \in 1..n : ~TaskDone(b.sub[i])
            /\ \A i \in 1..n : b.nsig[i] + b.sub[i].nsign <= 2

\* the batch has returned after a signer failure, the signer having been
\* called a second time, successfully, for a position
C29_Witness ==
    \E p \in Procs :
        /\ IsBatch(p)
        /\ calls[p].b.signFailed
        /\ calls[p].b.pc = "ret"
        /\ \E i \in 1..Len(calls[p].b.refs) :
              /\ calls[p].b.nsig[i] = 1
              /\ calls[p].b.sub[i].nsign = 1
              /\ calls[p].b.out[i].src = "signed"

====
